---- MODULE Spec2Model ----
(***************************************************************************)
(* Model of src/basic_cleaning/run.py: one run of go(args).  The run       *)
(* downloads a CSV artifact, parses it, filters the rows on price, turns   *)
(* last_review into dates, fills missing name / host_name /                *)
(* reviews_per_month, filters the rows on the geographic box, writes the   *)
(* table to a CSV file, checks that the file exists and uploads it.        *)
(*                                                                         *)
(* Numbers are scaled to integers: prices in dollars, coordinates in       *)
(* hundredths of a degree (-74.25 is -7425), reviews_per_month in tenths,  *)
(* dates as yyyymmdd.                                                      *)
(*                                                                         *)
(* The pandas calls are modelled element by element:                       *)
(*   read_csv     a column whose fields are all numerals or empty is a     *)
(*                float column (NaN for an empty field); any other column  *)
(*                is an object column whose non-empty fields are all str   *)
(*   between      (s >= left) & (s <= right): NaN compares False, a str    *)
(*                against a float raises TypeError                         *)
(*   to_datetime  errors='raise' (the default): NaN becomes NaT, a date    *)
(*                string a Timestamp, any other string raises              *)
(*   fillna       replaces NaN and nothing else                            *)
(*   to_csv       NaN, NaT and '' are written as empty fields              *)
(***************************************************************************)
EXTENDS Integers, Sequences, FiniteSets, TLC

VARIABLES file, min_price, max_price, pc, df, outFile, outExists, err, calls

vars == <<file, min_price, max_price, pc, df, outFile, outExists, err, calls>>

\* Largest number of data rows of the input CSV.
MaxRows == 2

\* The columns of the table: the seven the routine reads, and one it never names.
Columns == {"price", "last_review", "name", "host_name", "reviews_per_month",
            "longitude", "latitude", "neighbourhood"}

(***************************************************************************)
(* CSV fields (text) and DataFrame cells (typed values).                   *)
(***************************************************************************)
Field(form, v, s) == [form |-> form, v |-> v, s |-> s]
Empty == Field("empty", 0, "")
Numeral(n) == Field("numeral", n, "")
DateText(d) == Field("date", d, "")
Word(w) == Field("word", 0, w)

Cell(k, form, v, s) == [k |-> k, form |-> form, v |-> v, s |-> s]
NaN == Cell("nan", "", 0, "")
NaT == Cell("nat", "", 0, "")
Num(n) == Cell("num", "", n, "")
Timestamp(d) == Cell("date", "", d, "")
Str(f) == Cell("str", f.form, f.v, f.s)
EmptyStr == Str(Word(""))

IsNull(c) == c.k \in {"nan", "nat"}

(***************************************************************************)
(* pd.read_csv (line 28).  A CSV table is a sequence of rows, each a       *)
(* function from Columns to fields.  The DataFrame is a sequence of rows   *)
(* [index, cells]; index is the RangeIndex label given at parse time.      *)
(***************************************************************************)
NumericColumn(f, c) == \A i \in DOMAIN f : f[i][c].form \in {"empty", "numeral"}

ParseField(fld, numeric) ==
    IF fld.form = "empty" THEN NaN
    ELSE IF numeric THEN Num(fld.v)
    ELSE Str(fld)

read_csv(f) ==
    [i \in DOMAIN f |->
        [index |-> i - 1,
         cells |-> [c \in Columns |-> ParseField(f[i][c], NumericColumn(f, c))]]]

(***************************************************************************)
(* The outcome of a step of the cleaning: a table, or the exception.       *)
(***************************************************************************)
Ok(d) == [ok |-> TRUE, df |-> d, err |-> ""]
Raise(e) == [ok |-> FALSE, df |-> <<>>, err |-> e]

(***************************************************************************)
(* Series.between(left, right) (lines 32, 47), inclusive on both sides.    *)
(* One element: NaN gives False.  CompareRaises: the column holds a str,   *)
(* and str >= float raises TypeError.                                      *)
(***************************************************************************)
betweenNaNTrue(c, left, right) == ~(c.k = "num" /\ (c.v < left \/ c.v > right))

betweenExclusive(c, left, right) == c.k = "num" /\ left < c.v /\ c.v < right

between(c, left, right) == c.k = "num" /\ left <= c.v /\ c.v <= right

CompareRaises(d, col) == \E i \in DOMAIN d : d[i].cells[col].k = "str"

Reverse(s) == [i \in 1..Len(s) |-> s[Len(s) + 1 - i]]

(***************************************************************************)
(* Lines 32-33: idx = df['price'].between(min, max); df = df[idx].copy()   *)
(***************************************************************************)
PriceFilterLowerOnly(d, lo, hi) ==
    IF CompareRaises(d, "price") THEN Raise("TypeError")
    ELSE Ok(SelectSeq(d, LAMBDA r : r.cells.price.k = "num" /\ lo <= r.cells.price.v))

PriceFilterReversed(d, lo, hi) ==
    IF CompareRaises(d, "price") THEN Raise("TypeError")
    ELSE Ok(Reverse(SelectSeq(d, LAMBDA r : between(r.cells.price, lo, hi))))

PriceFilter(d, lo, hi) ==
    IF CompareRaises(d, "price") THEN Raise("TypeError")
    ELSE Ok(SelectSeq(d, LAMBDA r : between(r.cells.price, lo, hi)))

(***************************************************************************)
(* Line 37: df['last_review'] = pd.to_datetime(df['last_review'])          *)
(***************************************************************************)
Parseable(c) == c.k \in {"nan", "nat", "date", "num"} \/ (c.k = "str" /\ c.form = "date")

to_datetime(c) ==
    IF c.k \in {"nan", "nat"} THEN NaT
    ELSE IF c.k = "date" THEN c
    ELSE Timestamp(c.v)

ToDatetimeCoerce(d) ==
    Ok([i \in DOMAIN d |->
          [d[i] EXCEPT !.cells.last_review =
              IF Parseable(@) THEN to_datetime(@) ELSE NaT]])

ToDatetimeStringsOnly(d) ==
    IF \E i \in DOMAIN d : ~Parseable(d[i].cells.last_review) THEN Raise("ParserError")
    ELSE Ok([i \in DOMAIN d |->
               [d[i] EXCEPT !.cells.last_review =
                   IF @.k = "str" THEN to_datetime(@) ELSE NaT]])

ToDatetime(d) ==
    IF \E i \in DOMAIN d : ~Parseable(d[i].cells.last_review) THEN Raise("ParserError")
    ELSE Ok([i \in DOMAIN d |-> [d[i] EXCEPT !.cells.last_review = to_datetime(@)]])

(***************************************************************************)
(* Lines 40-42: fillna(value, inplace=True) on name, host_name and         *)
(* reviews_per_month.                                                      *)
(***************************************************************************)
fillna(d, col, value) ==
    [i \in DOMAIN d |-> [d[i] EXCEPT !.cells[col] = IF @.k = "nan" THEN value ELSE @]]

FillMissingNoHost(d) ==
    fillna(fillna(d, "name", EmptyStr), "reviews_per_month", Num(0))

FillMissingEveryText(d) ==
    fillna(fillna(fillna(fillna(d, "name", EmptyStr), "host_name", EmptyStr),
                  "reviews_per_month", Num(0)), "neighbourhood", EmptyStr)

FillMissing(d) ==
    fillna(fillna(fillna(d, "name", EmptyStr), "host_name", EmptyStr),
           "reviews_per_month", Num(0))

(***************************************************************************)
(* Lines 47-48: the geographic box, in hundredths of a degree.             *)
(***************************************************************************)
LonMin == -7425
LonMax == -7350
LatMin == 4050
LatMax == 4120

InBox(r) ==
    /\ between(r.cells.longitude, LonMin, LonMax)
    /\ between(r.cells.latitude, LatMin, LatMax)

GeoFilterOr(d) ==
    IF CompareRaises(d, "longitude") \/ CompareRaises(d, "latitude")
    THEN Raise("TypeError")
    ELSE Ok(SelectSeq(d, LAMBDA r : \/ between(r.cells.longitude, LonMin, LonMax)
                                    \/ between(r.cells.latitude, LatMin, LatMax)))

GeoFilter(d) ==
    IF CompareRaises(d, "longitude") \/ CompareRaises(d, "latitude")
    THEN Raise("TypeError")
    ELSE Ok(SelectSeq(d, InBox))

(***************************************************************************)
(* Line 49: df.to_csv(path, index=False).  The index is not written.       *)
(***************************************************************************)
WriteCell(c) ==
    IF IsNull(c) \/ c = EmptyStr THEN Empty
    ELSE IF c.k = "num" THEN Numeral(c.v)
    ELSE IF c.k = "date" THEN DateText(c.v)
    ELSE Field(c.form, c.v, c.s)

to_csv(d) == [i \in DOMAIN d |-> [c \in Columns |-> WriteCell(d[i].cells[c])]]

(***************************************************************************)
(* Lines 32-48 as one function of the parsed table and the two bounds.     *)
(***************************************************************************)
Clean(d, lo, hi) ==
    LET a == PriceFilter(d, lo, hi)
        b == IF a.ok THEN ToDatetime(a.df) ELSE a
        c == IF b.ok THEN Ok(FillMissing(b.df)) ELSE b
    IN  IF c.ok THEN GeoFilter(c.df) ELSE c

(***************************************************************************)
(* The inputs of a run: the downloaded CSV and the two price bounds.       *)
(* Rows are the spec's sample row with one field changed, the sample row   *)
(* with the text columns swapped between present and missing, and rows     *)
(* that the price filter drops while another field is malformed.           *)
(***************************************************************************)
BaseRow ==
    [price |-> Numeral(50), last_review |-> DateText(20190501),
     name |-> Empty, host_name |-> Word("Jo"), reviews_per_month |-> Empty,
     longitude |-> Numeral(-7390), latitude |-> Numeral(4070),
     neighbourhood |-> Word("Harlem")]

PriceFields == {Empty, Word("n/a"), Numeral(10), Numeral(100), Numeral(500)}
LonFields == {Empty, Word("west"), Numeral(-7500), Numeral(-7425), Numeral(-7350),
              Numeral(-7300)}
LatFields == {Empty, Word("north"), Numeral(4000), Numeral(4050), Numeral(4120),
              Numeral(4200)}
ReviewFields == {Empty, Word("never")}

InputRows ==
    {BaseRow}
    \cup {[BaseRow EXCEPT !.price = f] : f \in PriceFields}
    \cup {[BaseRow EXCEPT !.longitude = f] : f \in LonFields}
    \cup {[BaseRow EXCEPT !.latitude = f] : f \in LatFields}
    \cup {[BaseRow EXCEPT !.last_review = f] : f \in ReviewFields}
    \cup {[BaseRow EXCEPT !.name = Word("Loft"), !.host_name = Empty,
                          !.reviews_per_month = Numeral(15),
                          !.neighbourhood = Empty]}
    \cup {[BaseRow EXCEPT !.price = Numeral(500), !.last_review = Word("never")],
          [BaseRow EXCEPT !.price = Numeral(500), !.longitude = Word("west")],
          [BaseRow EXCEPT !.price = Empty, !.latitude = Word("north")]}

InputFiles == UNION {[1..n -> InputRows] : n \in 0..MaxRows}

PriceArgs == {10, 100}

Init ==
    /\ file \in InputFiles
    /\ min_price \in PriceArgs
    /\ max_price \in PriceArgs
    /\ pc = "start"
    /\ df = <<>>
    /\ outFile = <<>>
    /\ outExists = FALSE
    /\ err = ""
    /\ calls = <<>>

Fail(e) == pc' = "failed" /\ err' = e

\* Line 24: run.use_artifact(args.input_artifact).file(); the store may not
\* hold the artifact.
UseArtifact ==
    /\ pc = "start"
    /\ \E found \in BOOLEAN :
          IF found THEN pc' = "downloaded" /\ err' = err ELSE Fail("CommError")
    /\ UNCHANGED <<file, min_price, max_price, df, outFile, outExists, calls>>

\* Line 28
ReadCsv ==
    /\ pc = "downloaded"
    /\ df' = read_csv(file)
    /\ pc' = "parsed"
    /\ UNCHANGED <<file, min_price, max_price, outFile, outExists, err, calls>>

\* A step of lines 32-48: the table becomes the step's result, or the run
\* ends with the step's exception.
Step(from, to, result) ==
    /\ pc = from
    /\ IF result.ok
       THEN df' = result.df /\ pc' = to /\ err' = err
       ELSE df' = df /\ Fail(result.err)
    /\ UNCHANGED <<file, min_price, max_price, outFile, outExists, calls>>

\* Lines 32-33
FilterPrice == Step("parsed", "priced", PriceFilter(df, min_price, max_price))

\* Line 37
ConvertLastReview == Step("priced", "dated", ToDatetime(df))

\* Lines 40-42
FillNa == Step("dated", "filled", Ok(FillMissing(df)))

\* Lines 47-48
FilterGeo == Step("filled", "cleaned", GeoFilter(df))

\* Line 49
ToCsv ==
    /\ pc = "cleaned"
    /\ outFile' = to_csv(df)
    /\ outExists' = TRUE
    /\ pc' = "written"
    /\ UNCHANGED <<file, min_price, max_price, df, err, calls>>

\* The file system is shared: another process may remove the output file
\* after it is written and before add_file reads it.
RemoveOutput ==
    /\ pc \in {"written", "checked", "artifact"}
    /\ outExists
    /\ outExists' = FALSE
    /\ UNCHANGED <<file, min_price, max_price, pc, df, outFile, err, calls>>

\* Lines 52-53 without the raise.
ExistsCheckSkipped ==
    /\ pc = "written"
    /\ pc' = "checked"
    /\ UNCHANGED <<file, min_price, max_price, df, outFile, outExists, err, calls>>

\* Lines 52-53
ExistsCheck ==
    /\ pc = "written"
    /\ IF ~outExists THEN Fail("AssertionError") ELSE pc' = "checked" /\ err' = err
    /\ UNCHANGED <<file, min_price, max_price, df, outFile, outExists, calls>>

\* Lines 57-61
NewArtifact ==
    /\ pc = "checked"
    /\ calls' = Append(calls, "Artifact")
    /\ pc' = "artifact"
    /\ UNCHANGED <<file, min_price, max_price, df, outFile, outExists, err>>

\* Line 62: add_file raises ValueError when the path is not a file.
AddFile ==
    /\ pc = "artifact"
    /\ calls' = Append(calls, "add_file")
    /\ IF outExists THEN pc' = "added" /\ err' = err ELSE Fail("ValueError")
    /\ UNCHANGED <<file, min_price, max_price, df, outFile, outExists>>

\* Line 63
LogArtifact ==
    /\ pc = "added"
    /\ calls' = Append(calls, "log_artifact")
    /\ pc' = "done"
    /\ UNCHANGED <<file, min_price, max_price, df, outFile, outExists, err>>

Next ==
    \/ UseArtifact
    \/ ReadCsv
    \/ FilterPrice
    \/ ConvertLastReview
    \/ FillNa
    \/ FilterGeo
    \/ ToCsv
    \/ RemoveOutput
    \/ ExistsCheck
    \/ NewArtifact
    \/ AddFile
    \/ LogArtifact

Spec == Init /\ [][Next]_vars

(***************************************************************************)
(* Vocabulary of the properties.                                           *)
(***************************************************************************)
\* The parsed input table; the row with index label n is In[n + 1].
In == read_csv(file)

\* Lines 32-48 have completed: df is the cleaned table.
Cleaned ==
    \/ pc \in {"cleaned", "written", "checked", "artifact", "added", "done"}
    \/ pc = "failed" /\ err \in {"AssertionError", "ValueError"}

\* Line 49 has completed: outFile is the table written.
Written == Cleaned /\ pc # "cleaned"

\* Line 37 has completed.
Dated == pc \in {"dated", "filled"} \/ Cleaned

\* Lines 32-33 have been executed.
PriceStepTaken == pc \notin {"start", "downloaded", "parsed"} /\ err # "CommError"

PriceOk(f) == f.form = "numeral" /\ min_price <= f.v /\ f.v <= max_price
LonOk(f) == f.form = "numeral" /\ LonMin <= f.v /\ f.v <= LonMax
LatOk(f) == f.form = "numeral" /\ LatMin <= f.v /\ f.v <= LatMax

Indexes(d) == {d[i].index : i \in DOMAIN d}

\* C1: every row of the table written has a numeric price p with
\* min_price <= p <= max_price, and the table is empty when min_price > max_price.
C1_PriceWithinBounds ==
    Written =>
        /\ \A i \in DOMAIN outFile : PriceOk(outFile[i].price)
        /\ \A i \in DOMAIN df : between(df[i].cells.price, min_price, max_price)
        /\ (min_price > max_price => outFile = <<>>)

C1_Witness ==
    /\ Written
    /\ Len(outFile) >= 1
    /\ \E i \in DOMAIN file : file[i].price = Numeral(500)

\* C2: every row of the table written has longitude in [-74.25, -73.50] and
\* latitude in [40.5, 41.2], whatever the price bounds; an input row whose price
\* is in range but which has a coordinate outside the box is not in the output.
C2_GeoWithinBox ==
    Written =>
        /\ \A i \in DOMAIN outFile :
              LonOk(outFile[i].longitude) /\ LatOk(outFile[i].latitude)
        /\ \A i \in DOMAIN file :
              (PriceOk(file[i].price) /\ ~(LonOk(file[i].longitude) /\ LatOk(file[i].latitude)))
                  => (i - 1) \notin Indexes(df)

C2_Witness ==
    /\ Written
    /\ Len(outFile) >= 1
    /\ \E i \in DOMAIN file :
          /\ PriceOk(file[i].price)
          /\ file[i].longitude = Numeral(-7500)
          /\ LatOk(file[i].latitude)

\* C3: in the cleaned table name, host_name and reviews_per_month are never
\* missing: a missing name or host_name is '', a missing reviews_per_month is 0,
\* and a value that was present is the value of the input row.
C3_NoMissingAfterFill ==
    Cleaned =>
        \A i \in DOMAIN df :
            LET was == In[df[i].index + 1].cells
                now == df[i].cells
            IN  /\ ~IsNull(now.name) /\ ~IsNull(now.host_name)
                /\ ~IsNull(now.reviews_per_month)
                /\ now.name = (IF IsNull(was.name) THEN EmptyStr ELSE was.name)
                /\ now.host_name = (IF IsNull(was.host_name) THEN EmptyStr ELSE was.host_name)
                /\ now.reviews_per_month =
                      (IF IsNull(was.reviews_per_month) THEN Num(0) ELSE was.reviews_per_month)

C3_Witness ==
    /\ Cleaned
    /\ \E i \in DOMAIN df : file[df[i].index + 1].host_name = Empty
    /\ \E i \in DOMAIN df : file[df[i].index + 1].name = Empty

\* C4: cleaning the cleaned table again with the same bounds gives the identical
\* table (rows, order, index and every cell), and cleaning the file written gives
\* the identical file.
C4_Idempotent ==
    /\ Cleaned => Clean(df, min_price, max_price) = Ok(df)
    /\ Written =>
          LET again == Clean(read_csv(outFile), min_price, max_price)
          IN  again.ok /\ to_csv(again.df) = outFile

C4_Witness ==
    /\ Written
    /\ \E i \in DOMAIN df :
          /\ df[i].cells.last_review.k = "date"
          /\ df[i].cells.name = EmptyStr
    /\ \E i \in DOMAIN df : df[i].cells.last_review = NaT

\* C5: the rows of the cleaned table are in the order of the input: their index
\* labels are labels of the input and strictly increase, so no row is moved or
\* duplicated.
C5_OrderPreserved ==
    PriceStepTaken /\ pc # "failed" =>
        /\ \A i \in DOMAIN df : df[i].index \in 0..(Len(file) - 1)
        /\ \A i, j \in DOMAIN df : i < j => df[i].index < df[j].index

C5_Witness ==
    /\ Cleaned
    /\ Len(df) >= 2
    /\ df[1].cells # df[2].cells

\* C6: when the output file does not exist at the existence check the run fails
\* with the check's error (AssertionError) and makes no upload call; an upload
\* call (Artifact, add_file, log_artifact) is made only after the check passed.
C6_NoUploadWithoutFile ==
    /\ [](calls # <<>> =>
            \/ pc \in {"artifact", "added", "done"}
            \/ pc = "failed" /\ err = "ValueError")
    /\ [](err = "AssertionError" => pc = "failed" /\ calls = <<>> /\ ~outExists)
    /\ [][(pc = "written" /\ ~outExists)
            => (pc' = "failed" /\ err' = "AssertionError" /\ calls' = <<>>)]_vars
    /\ [][(pc = "written" /\ pc' = "checked") => outExists]_vars

C6_Witness == pc = "failed" /\ err = "AssertionError" /\ ~outExists /\ outFile # <<>>

\* C7 as claimed: the date conversion never fails the run; on every row that
\* passed the price filter a parseable last_review becomes its date and an
\* unparseable or absent one becomes NaT.
C7_DateConversionNeverFails ==
    /\ err # "ParserError"
    /\ Dated =>
          \A i \in DOMAIN df :
              LET was == file[df[i].index + 1].last_review
              IN  df[i].cells.last_review =
                      (IF was.form = "date" THEN Timestamp(was.v) ELSE NaT)

\* The rows of the input that pass the price filter, when it does not raise.
PriceSurvivors == {i \in DOMAIN file : PriceOk(file[i].price)}
PriceColumnIsText == \E i \in DOMAIN file : file[i].price.form = "word"

\* C7 as amended: on every row that passed the price filter an absent
\* last_review becomes NaT and a date string becomes its date, and no row is
\* dropped by the conversion; when a row that passed the price filter holds text
\* that is no date the conversion raises, the run fails and nothing is written.
C7_DateConversion ==
    /\ Dated =>
          \A i \in DOMAIN df :
              LET was == file[df[i].index + 1].last_review
              IN  /\ was.form \in {"empty", "date"}
                  /\ df[i].cells.last_review =
                        (IF was.form = "date" THEN Timestamp(was.v) ELSE NaT)
    /\ pc = "dated" => Indexes(df) = {i - 1 : i \in PriceSurvivors}
    /\ (/\ PriceStepTaken
        /\ ~PriceColumnIsText
        /\ \E i \in PriceSurvivors : file[i].last_review.form = "word")
          => (pc = "priced" \/ (pc = "failed" /\ err = "ParserError" /\ ~outExists))
    /\ err = "ParserError" =>
          \E i \in PriceSurvivors : file[i].last_review.form = "word"

C7_Witness ==
    /\ pc = "dated"
    /\ \E i \in DOMAIN df : df[i].cells.last_review = NaT
    /\ \E i \in DOMAIN df : df[i].cells.last_review = Timestamp(20190501)

GeoColumnRaises(c) ==
    /\ \E i \in DOMAIN file : file[i][c].form = "word"
    /\ \E i \in PriceSurvivors : file[i][c].form # "empty"

C9_Frame ==
    Cleaned =>
        \A i \in DOMAIN df :
            /\ DOMAIN df[i].cells = Columns
            /\ \A c \in Columns \ {"name", "host_name", "reviews_per_month", "last_review"} :
                  df[i].cells[c] = In[df[i].index + 1].cells[c]
            /\ Written => DOMAIN outFile[i] = Columns

C9_Witness ==
    /\ Cleaned
    /\ \E i \in DOMAIN df : df[i].cells.neighbourhood = NaN

\* The input rows with price within the bounds and coordinates within the box.
Qualifying ==
    {i \in DOMAIN file :
        /\ PriceOk(file[i].price)
        /\ LonOk(file[i].longitude)
        /\ LatOk(file[i].latitude)}

====
